---- MODULE Spec2Model ----
(***************************************************************************)
(* A model of typesense-js' Documents resource (src/Typesense/Documents.ts) *)
(* and of the transport underneath it (ApiCall: node selection, health and   *)
(* retry), which Documents.ts only calls.                                    *)
(*                                                                           *)
(* Text is a sequence of chunks.  The chunk "\n" is the newline character;   *)
(* every other chunk is a run of characters holding no newline, written as   *)
(* the JavaScript string it stands for.  A JavaScript object is the function *)
(* from its property names to the spelling of each property's value          *)
(* ("false" is the boolean, "\"false\"" would be the string).                *)
(***************************************************************************)
EXTENDS Naturals, Sequences, FiniteSets, TLC

VARIABLES
    pc,         \* where the one call modelled is: "idle", "awaiting", "done"
                \* (and "encoded", "decoded" between the codec's two steps)
    op,         \* the method called: "import", "create", "upsert", "update"
                \* (and "encode", "decode" for the codec on its own)
    documents,  \* the first argument: a document, an array of them, or a text
    options,    \* the caller's options object, as it is now
    optionsGiven, \* the options object as the caller passed it
    request,    \* what the method handed to apiCall, NoRequest before that
    response,   \* the text performRequest resolved with, NoText before that
    outcome,    \* how the call ended: returned a value or threw an error
    poolSize,   \* the number of configured nodes
    health,     \* each node's health: healthy, or unhealthy since a time
    cursor,     \* the rotation cursor: the node selected last
    now,        \* the clock
    opc,        \* each transport operation: "selecting" | "sending" | "done"
    selected,   \* each operation's node of the current attempt
    tried,      \* the attempts of Request so far, as they ended
    result      \* the final result of Request, "none" before it

docVars == <<pc, op, documents, options, optionsGiven, request, response, outcome>>
poolVars == <<poolSize, health, cursor, now, opc, selected, tried, result>>
vars == <<docVars, poolVars>>

-----------------------------------------------------------------------------
(* Bounds *)

MaxDocs == 3    \* documents in one imported array
MaxLines == 3   \* lines in a response text
MaxRaw == 2     \* chunks in a pre-encoded text handed to import
MaxTime == 4    \* the clock stops here
NumOps == 2     \* operations sharing the node pool at once

-----------------------------------------------------------------------------
(* JavaScript values *)

NL == "\n"

Null == [type |-> "null"]
Obj(props) == [type |-> "object", props |-> props]

DocA == Obj([id |-> "\"A\""])
DocB == Obj([id |-> "\"B\""])
DocC == Obj([id |-> "\"C\""])
\* A document holding a value JSON has no spelling for: { v: NaN }.
DocNaN == Obj([v |-> "NaN"])
DocNull == Obj([v |-> "null"])

ImportResponseSuccess == Obj([success |-> "true"])
ImportResponseFail ==
    Obj([success |-> "false", error |-> "\"Bad JSON.\"",
         document |-> "\"{\\\"id\\\":\\\"B\\\"}\"", code |-> "400"])
\* A line that describes an error and carries no success property.
ResultNoSuccess == Obj([error |-> "\"Bad JSON.\"", code |-> "400"])

\* JSON texts (of one line) and the value JSON.parse gives for each.
\* canonical: the text is what JSON.stringify writes for the value.
JsonTable ==
    { [text |-> "{\"success\":true}", value |-> ImportResponseSuccess, canonical |-> TRUE],
      [text |-> "{ \"success\": true }", value |-> ImportResponseSuccess, canonical |-> FALSE],
      [text |-> "{\"success\":false,\"error\":\"Bad JSON.\",\"document\":\"{\\\"id\\\":\\\"B\\\"}\",\"code\":400}",
       value |-> ImportResponseFail, canonical |-> TRUE],
      [text |-> "{\"error\":\"Bad JSON.\",\"code\":400}", value |-> ResultNoSuccess, canonical |-> TRUE],
      [text |-> "null", value |-> Null, canonical |-> TRUE],
      [text |-> "{\"id\":\"A\"}", value |-> DocA, canonical |-> TRUE],
      [text |-> "{\"id\":\"B\"}", value |-> DocB, canonical |-> TRUE],
      [text |-> "{\"id\":\"C\"}", value |-> DocC, canonical |-> TRUE],
      [text |-> "{\"v\":null}", value |-> DocNull, canonical |-> TRUE] }

\* A chunk that is no JSON text, alone or followed by anything.
Garbage == "{\"success\":tr"

TextSuccess == "{\"success\":true}"
TextSuccessSpaced == "{ \"success\": true }"
TextFail == "{\"success\":false,\"error\":\"Bad JSON.\",\"document\":\"{\\\"id\\\":\\\"B\\\"}\",\"code\":400}"
TextNoSuccess == "{\"error\":\"Bad JSON.\",\"code\":400}"
TextNull == "null"

Parsed(v) == [ok |-> TRUE, value |-> v]
SyntaxErrorThrown == [ok |-> FALSE]

\* JSON.parse of one line (a text holding no newline): the value of a JSON
\* text; a SyntaxError for the empty line and for anything else.
JSONparse(line) ==
    IF Len(line) = 1 /\ \E e \in JsonTable : e.text = line[1]
    THEN Parsed((CHOOSE e \in JsonTable : e.text = line[1]).value)
    ELSE SyntaxErrorThrown

\* What JSON.stringify serialises of a value: NaN is written as null.
JSONValueOf(v) ==
    IF v.type = "null" THEN v
    ELSE Obj([k \in DOMAIN v.props |-> IF v.props[k] = "NaN" THEN "null" ELSE v.props[k]])

\* JSON.stringify of a value: its one-line JSON text.
JSONstringify(v) ==
    <<(CHOOSE e \in JsonTable : e.value = JSONValueOf(v) /\ e.canonical).text>>

-----------------------------------------------------------------------------
(* String.prototype.split('\n') and Array.prototype.join('\n') *)

RECURSIVE SplitFrom(_, _)
\* The lines of text t after the line `line` read so far.
SplitFrom(t, line) ==
    IF t = << >> THEN <<line>>
    ELSE IF Head(t) = NL THEN <<line>> \o SplitFrom(Tail(t), << >>)
    ELSE SplitFrom(Tail(t), Append(line, Head(t)))

\* A split that drops a trailing empty line, as other languages' split does.
SplitDroppingTrailingEmpty(t) ==
    LET ls == SplitFrom(t, << >>)
    IN  IF Len(ls) > 1 /\ ls[Len(ls)] = << >> THEN SubSeq(ls, 1, Len(ls) - 1) ELSE ls

Split(t) == SplitFrom(t, << >>)

RECURSIVE JoinWithTrailingNewline(_)
\* A join that writes the separator after every line, the last too.
JoinWithTrailingNewline(lines) ==
    IF lines = << >> THEN << >>
    ELSE lines[1] \o <<NL>> \o JoinWithTrailingNewline(Tail(lines))

RECURSIVE Join(_)
Join(lines) ==
    IF lines = << >> THEN << >>
    ELSE IF Len(lines) = 1 THEN lines[1]
    ELSE lines[1] \o <<NL>> \o Join(Tail(lines))

-----------------------------------------------------------------------------
(* Documents.import *)

ArrayOf(docs) == [kind |-> "array", val |-> docs]
StringOf(text) == [kind |-> "string", val |-> text]
IsArray(d) == d.kind = "array"

NoRequest == [method |-> "none"]
NoText == [kind |-> "none"]
Pending == [kind |-> "pending"]
Returned(v) == [kind |-> "returned", value |-> v]
Thrown(e) == [kind |-> "thrown", error |-> e]

\* The two numbers of the message, interpolated the wrong way round.
ImportErrorSwapped(succeeded, failed, results) ==
    [name |-> "ImportError",
     message |-> [succeeded |-> failed, failed |-> succeeded],
     importResults |-> results]

\* The message of ImportError is a template with two numbers in it.
ImportError(succeeded, failed, results) ==
    [name |-> "ImportError",
     message |-> [succeeded |-> succeeded, failed |-> failed],
     importResults |-> results]
\* JSON.parse's error: its message tells what was read, not which line.
SyntaxError == [name |-> "SyntaxError", message |-> "Unexpected token in JSON"]
\* Cannot read properties of null (reading 'success')
TypeError == [name |-> "TypeError", message |-> "Cannot read properties of null"]
RequestError == [name |-> "RequestError"]
NoDocumentError == [name |-> "Error", message |-> "No document provided"]

\* documents.map((document) => JSON.stringify(document)).join('\n')
Encode(docs) == Join([i \in 1..Len(docs) |-> JSONstringify(docs[i])])

DocumentsInJSONLFormat(d) == IF IsArray(d) THEN Encode(d.val) ELSE d.val

ImportRequest(d, opts) ==
    [method |-> "post", path |-> "import", queryParameters |-> opts,
     bodyParameters |-> DocumentsInJSONLFormat(d),
     additionalHeaders |-> [ContentType |-> "text/plain"]]

\* !r.success: a result with no success property counts as failed too.
IsFailedFalsy(r) == "success" \notin DOMAIN r.props \/ r.props["success"] = "false"

\* r.success === false; reading a property of null throws a TypeError.
IsFailed(r) == "success" \in DOMAIN r.props /\ r.props["success"] = "false"

\* A decode that leaves out the lines JSON.parse rejects.
DecodeSkippingMalformed(text) ==
    LET lines == Split(text)
        parsed == SelectSeq([i \in 1..Len(lines) |-> JSONparse(lines[i])], LAMBDA r : r.ok)
    IN  Returned(ArrayOf([i \in 1..Len(parsed) |-> parsed[i].value]))

\* resultsInJSONLFormat.split('\n').map((r) => JSON.parse(r)): the first
\* line JSON.parse rejects throws its SyntaxError out of the map.
Decode(text) ==
    LET lines == Split(text)
        parsed == [i \in 1..Len(lines) |-> JSONparse(lines[i])]
    IN  IF \E i \in 1..Len(parsed) : ~parsed[i].ok
        THEN Thrown(SyntaxError)
        ELSE Returned(ArrayOf([i \in 1..Len(parsed) |-> parsed[i].value]))

\* resultsInJSONFormat.filter((r) => r.success === false), then throw or return.
Partition(resultsInJSONFormat) ==
    IF \E i \in 1..Len(resultsInJSONFormat) : resultsInJSONFormat[i] = Null
    THEN Thrown(TypeError)
    ELSE LET failedItems == {i \in 1..Len(resultsInJSONFormat) : IsFailed(resultsInJSONFormat[i])}
         IN  IF Cardinality(failedItems) > 0
             THEN Thrown(ImportError(
                      Len(resultsInJSONFormat) - Cardinality(failedItems),
                      Cardinality(failedItems),
                      resultsInJSONFormat))
             ELSE Returned(ArrayOf(resultsInJSONFormat))

\* The array branch after the await.
DecodeAndPartition(text) ==
    LET decoded == Decode(text)
    IN  IF decoded.kind = "thrown" THEN decoded ELSE Partition(decoded.value.val)

\* The response decoded whatever the input was.
ImportOutcomeAlwaysDecoding(d, text) == DecodeAndPartition(text)

ImportOutcome(d, text) ==
    IF IsArray(d) THEN DecodeAndPartition(text) ELSE Returned(StringOf(text))

-----------------------------------------------------------------------------
(* Inputs *)

Docs == {DocA, DocB, DocC}

SeqsUpTo(S, n) == UNION {[1..k -> S] : k \in 0..n}

ImportOptions == { << >>, [action |-> "\"upsert\""] }

LineTexts == { << >>, <<TextSuccess>>, <<TextFail>>, <<TextNoSuccess>>, <<TextNull>>, <<Garbage>> }

RECURSIVE TextOfLines(_)
\* The text whose lines are ls, one newline between two lines.
TextOfLines(ls) ==
    IF Len(ls) = 1 THEN ls[1] ELSE ls[1] \o <<"\n">> \o TextOfLines(Tail(ls))

ResponseTexts == { TextOfLines(ls) : ls \in SeqsUpTo(LineTexts, MaxLines) \ {<< >>} }

RawTexts == SeqsUpTo({NL, TextSuccess, "{\"id\":\"A\"}"}, MaxRaw)

ImportInputs == {ArrayOf(ds) : ds \in SeqsUpTo(Docs, MaxDocs)} \cup {StringOf(t) : t \in RawTexts}

-----------------------------------------------------------------------------
(* The transport under apiCall.performRequest: node pool, health, retry.    *)
(* Documents.ts only calls it; this part follows the design document.       *)
(* No nearest node is configured.                                           *)

PoolSizes == {1, 2, 3}
\* Time a node stays out of selection after a failure.
Cooldown == 3

Ops == 1..NumOps
Nodes == 0..(poolSize - 1)

\* Up to N attempts, N the number of configured nodes.
AttemptBudget == poolSize

HealthyNode == [healthy |-> TRUE]
UnhealthySince(t) == [healthy |-> FALSE, since |-> t]

\* Only the flag is read: a failed node stays out until reportSuccess.
EligibleIgnoringCooldown(h, t) == h.healthy

\* HealthPolicy: healthy, or unhealthy for at least the cooldown.
Eligible(h, t) == h.healthy \/ t >= h.since + Cooldown

RECURSIVE Scan(_, _, _, _)
\* The first eligible node after the cursor, in rotation order from step k;
\* poolSize when there is none.
Scan(cur, hl, t, k) ==
    IF k > poolSize THEN poolSize
    ELSE LET n == (cur + k) % poolSize
         IN  IF Eligible(hl[n], t) THEN n ELSE Scan(cur, hl, t, k + 1)

\* Among nodes all unhealthy, the one failed longest ago (the first such in
\* rotation order on a tie).
LeastRecentlyFailed(cur, hl) ==
    LET oldest == {n \in Nodes : \A m \in Nodes : hl[n].since <= hl[m].since}
        k == CHOOSE j \in 1..poolSize :
                 /\ (cur + j) % poolSize \in oldest
                 /\ \A i \in 1..(j - 1) : (cur + i) % poolSize \notin oldest
    IN  (cur + k) % poolSize

\* With every node ineligible, the next node in rotation whatever its age.
NextNodeRotatingWhenAllFailed(cur, hl, t) ==
    LET found == Scan(cur, hl, t, 1)
    IN  IF found < poolSize THEN [node |-> found, cursor |-> found]
        ELSE [node |-> (cur + 1) % poolSize, cursor |-> (cur + 1) % poolSize]

\* NodeSelector.next(): the node selected and the cursor after it.
NextNode(cur, hl, t) ==
    LET found == Scan(cur, hl, t, 1)
    IN  IF found < poolSize THEN [node |-> found, cursor |-> found]
        ELSE [node |-> LeastRecentlyFailed(cur, hl), cursor |-> (cur + 1) % poolSize]

\* A server fault (5xx) is retried like a network error.
AfterAttemptRetryingServerFaults(history) ==
    LET last == history[Len(history)]
    IN  IF last.outcome = "NetworkError" \/ (last.outcome = "response" /\ last.status >= 500)
        THEN IF Len(history) < AttemptBudget
             THEN [pc |-> "selecting", result |-> "none"]
             ELSE [pc |-> "done", result |-> "ServiceUnavailableError"]
        ELSE IF last.outcome = "cancelled"
        THEN [pc |-> "done", result |-> "CancelledError"]
        ELSE IF last.status >= 200 /\ last.status < 300
        THEN [pc |-> "done", result |-> "response"]
        ELSE [pc |-> "done", result |-> "ApplicationError"]

\* RetryCoordinator after an attempt: where the operation goes from the
\* attempts made so far, the last of them just ended.
AfterAttempt(history) ==
    LET last == history[Len(history)]
    IN  IF last.outcome = "NetworkError"
        THEN IF Len(history) < AttemptBudget
             THEN [pc |-> "selecting", result |-> "none"]
             ELSE [pc |-> "done", result |-> "ServiceUnavailableError"]
        ELSE IF last.outcome = "cancelled"
        THEN [pc |-> "done", result |-> "CancelledError"]
        ELSE IF last.status >= 200 /\ last.status < 300
        THEN [pc |-> "done", result |-> "response"]
        ELSE [pc |-> "done", result |-> "ApplicationError"]

Statuses == {200, 404, 503}

\* The operation whose attempts are followed; the others only use the pool.
Request == 1

\* A pool of size nodes, all healthy, no operation begun.
PoolOf(size) ==
    /\ poolSize = size
    /\ health = [n \in 0..(size - 1) |-> HealthyNode]
    /\ cursor = size - 1
    /\ now = 0
    /\ opc = [o \in Ops |-> "selecting"]
    /\ selected = [o \in Ops |-> 0]
    /\ tried = << >>
    /\ result = "none"

InitPool == \E size \in PoolSizes : PoolOf(size)

\* An operation asks NodeSelector.next() for the node of its next attempt.
Select(o) ==
    /\ opc[o] = "selecting"
    /\ LET r == NextNode(cursor, health, now)
       IN  /\ selected' = [selected EXCEPT ![o] = r.node]
           /\ cursor' = r.cursor
    /\ opc' = [opc EXCEPT ![o] = "sending"]
    /\ UNCHANGED <<poolSize, health, now, tried, result>>
    /\ UNCHANGED docVars

\* Transport.send fails with NetworkError: reportFailure(node).  The
\* operation goes on to another send.
SendFails(o) ==
    /\ opc[o] = "sending"
    /\ health' = [health EXCEPT ![selected[o]] = UnhealthySince(now)]
    /\ opc' = [opc EXCEPT ![o] = "selecting"]
    /\ UNCHANGED <<poolSize, cursor, now, selected, tried, result>>
    /\ UNCHANGED docVars

\* Transport.send receives a response, whatever its status:
\* reportSuccess(node).  The operation goes on to another send.
SendResponds(o) ==
    /\ opc[o] = "sending"
    /\ health' = [health EXCEPT ![selected[o]] = HealthyNode]
    /\ opc' = [opc EXCEPT ![o] = "selecting"]
    /\ UNCHANGED <<poolSize, cursor, now, selected, tried, result>>
    /\ UNCHANGED docVars

\* Record the attempt of Request that just ended and move it on.
Ended(attempt) ==
    LET history == Append(tried, attempt)
    IN  /\ tried' = history
        /\ opc' = [opc EXCEPT ![Request] = AfterAttempt(history).pc]
        /\ result' = AfterAttempt(history).result

\* An attempt of Request fails with NetworkError: reportFailure(node).
NetworkFailure ==
    /\ opc[Request] = "sending"
    /\ health' = [health EXCEPT ![selected[Request]] = UnhealthySince(now)]
    /\ Ended([outcome |-> "NetworkError", status |-> 0])
    /\ UNCHANGED <<poolSize, cursor, now, selected>>
    /\ UNCHANGED docVars

\* An attempt of Request receives a response: reportSuccess(node).
Respond ==
    /\ opc[Request] = "sending"
    /\ health' = [health EXCEPT ![selected[Request]] = HealthyNode]
    /\ \E status \in Statuses : Ended([outcome |-> "response", status |-> status])
    /\ UNCHANGED <<poolSize, cursor, now, selected>>
    /\ UNCHANGED docVars

\* The caller cancels the attempt of Request in flight.
Cancel ==
    /\ opc[Request] = "sending"
    /\ Ended([outcome |-> "cancelled", status |-> 0])
    /\ UNCHANGED <<poolSize, health, cursor, now, selected>>
    /\ UNCHANGED docVars

Tick ==
    /\ now < MaxTime
    /\ now' = now + 1
    /\ UNCHANGED <<poolSize, health, cursor, opc, selected, tried, result>>
    /\ UNCHANGED docVars

\* Operations that share the pool, each send after send.
NextPool ==
    \/ \E o \in Ops : Select(o)
    \/ \E o \in Ops : SendFails(o)
    \/ \E o \in Ops : SendResponds(o)
    \/ Tick

\* RetryCoordinator.execute of Request, the other operations beside it.
NextRetry ==
    \/ Select(Request)
    \/ NetworkFailure
    \/ Respond
    \/ Cancel
    \/ \E o \in Ops \ {Request} : Select(o)
    \/ \E o \in Ops \ {Request} : SendFails(o)
    \/ \E o \in Ops \ {Request} : SendResponds(o)
    \/ Tick

-----------------------------------------------------------------------------
(* The calls *)

DocumentsIdle ==
    /\ pc = "idle"
    /\ op = "none"
    /\ documents = StringOf(<< >>)
    /\ options = << >>
    /\ optionsGiven = << >>
    /\ request = NoRequest
    /\ response = NoText
    /\ outcome = Pending

\* A Documents object over a client of one node.
Init == DocumentsIdle /\ PoolOf(1)

\* A client of one node or more, no Documents call under way.
InitTransport == DocumentsIdle /\ InitPool

\* import, up to its await of performRequest.
Import ==
    /\ pc = "idle"
    /\ \E d \in ImportInputs, opts \in ImportOptions :
        /\ documents' = d
        /\ options' = opts
        /\ optionsGiven' = opts
        /\ request' = ImportRequest(d, opts)
    /\ op' = "import"
    /\ pc' = "awaiting"
    /\ UNCHANGED <<response, outcome>>
    /\ UNCHANGED poolVars

\* performRequest resolves with a text and import runs to its end.
ImportResolved ==
    /\ pc = "awaiting"
    /\ op = "import"
    /\ \E text \in ResponseTexts :
        /\ response' = [kind |-> "text", val |-> text]
        /\ outcome' = ImportOutcome(documents, text)
    /\ pc' = "done"
    /\ UNCHANGED <<op, documents, options, optionsGiven, request>>
    /\ UNCHANGED poolVars

\* performRequest rejects: the await throws and import rethrows.
ImportRejected ==
    /\ pc = "awaiting"
    /\ op = "import"
    /\ outcome' = Thrown(RequestError)
    /\ pc' = "done"
    /\ UNCHANGED <<op, documents, options, optionsGiven, request, response>>
    /\ UNCHANGED poolVars

-----------------------------------------------------------------------------
(* Documents.create, Documents.upsert, Documents.update *)

Undefined == [type |-> "undefined"]

\* !document
Falsy(v) == v.type \in {"undefined", "null"}

\* options: DocumentWriteParameters = {}
OrDefault(opts) == IF opts = Undefined THEN << >> ELSE opts

RECURSIVE ObjectAssign(_, _)
\* Object.assign(target, ...sources): the properties target ends with.
ObjectAssign(target, sources) ==
    IF sources = << >> THEN target
    ELSE LET src == Head(sources)
             assigned == [k \in (DOMAIN target) \cup (DOMAIN src) |->
                             IF k \in DOMAIN src THEN src[k] ELSE target[k]]
         IN  ObjectAssign(assigned, Tail(sources))

PostRequest(document, queryParameters) ==
    [method |-> "post", path |-> "", queryParameters |-> queryParameters,
     bodyParameters |-> document, additionalHeaders |-> << >>]

\* this.apiCall.post(this.endpointPath(), document, options): the request
\* made and the caller's options object after it.
CreateCall(document, opts) ==
    [request |-> PostRequest(document, OrDefault(opts)), options |-> opts]

\* Object.assign({}, options, { action }) writes a fresh object.
UpsertOptionsMutated(document, opts) ==
    LET merged == ObjectAssign(OrDefault(opts), << [action |-> "\"upsert\""] >>)
    IN  [request |-> PostRequest(document, merged), options |-> merged]

UpsertCall(document, opts) ==
    LET merged == ObjectAssign(<< >>, << OrDefault(opts), [action |-> "\"upsert\""] >>)
    IN  [request |-> PostRequest(document, merged), options |-> opts]

UpdateCall(document, opts) ==
    LET merged == ObjectAssign(<< >>, << OrDefault(opts), [action |-> "\"update\""] >>)
    IN  [request |-> PostRequest(document, merged), options |-> opts]

OptionKeys == {"action", "dirty_values"}
OptionValues(k) ==
    IF k = "action" THEN {"\"create\"", "\"update\"", "\"upsert\""}
    ELSE {"\"drop\"", "\"reject\""}
WriteOptions ==
    {Undefined} \cup
    UNION { {o \in [D -> UNION {OptionValues(k) : k \in OptionKeys}] :
                \A k \in D : o[k] \in OptionValues(k)} : D \in SUBSET OptionKeys }

WriteDocuments == {Undefined, Null, DocA, DocB}

\* create, up to its request or its throw.
Create ==
    /\ pc = "idle"
    /\ op' = "create"
    /\ \E document \in WriteDocuments, opts \in WriteOptions :
        /\ documents' = document
        /\ optionsGiven' = opts
        /\ IF Falsy(document)
           THEN /\ outcome' = Thrown(NoDocumentError)
                /\ pc' = "done"
                /\ options' = opts
                /\ UNCHANGED request
           ELSE /\ request' = CreateCall(document, opts).request
                /\ options' = CreateCall(document, opts).options
                /\ pc' = "awaiting"
                /\ UNCHANGED outcome
    /\ UNCHANGED response
    /\ UNCHANGED poolVars

\* upsert, up to its request or its throw.
Upsert ==
    /\ pc = "idle"
    /\ op' = "upsert"
    /\ \E document \in WriteDocuments, opts \in WriteOptions :
        /\ documents' = document
        /\ optionsGiven' = opts
        /\ IF Falsy(document)
           THEN /\ outcome' = Thrown(NoDocumentError)
                /\ pc' = "done"
                /\ options' = opts
                /\ UNCHANGED request
           ELSE /\ request' = UpsertCall(document, opts).request
                /\ options' = UpsertCall(document, opts).options
                /\ pc' = "awaiting"
                /\ UNCHANGED outcome
    /\ UNCHANGED response
    /\ UNCHANGED poolVars

\* update, up to its request or its throw.
Update ==
    /\ pc = "idle"
    /\ op' = "update"
    /\ \E document \in WriteDocuments, opts \in WriteOptions :
        /\ documents' = document
        /\ optionsGiven' = opts
        /\ IF Falsy(document)
           THEN /\ outcome' = Thrown(NoDocumentError)
                /\ pc' = "done"
                /\ options' = opts
                /\ UNCHANGED request
           ELSE /\ request' = UpdateCall(document, opts).request
                /\ options' = UpdateCall(document, opts).options
                /\ pc' = "awaiting"
                /\ UNCHANGED outcome
    /\ UNCHANGED response
    /\ UNCHANGED poolVars

\* apiCall.post resolves with the stored document.
WriteResolved ==
    /\ pc = "awaiting"
    /\ op \in {"create", "upsert", "update"}
    /\ outcome' = Returned(documents)
    /\ pc' = "done"
    /\ UNCHANGED <<op, documents, options, optionsGiven, request, response>>
    /\ UNCHANGED poolVars

WriteRejected ==
    /\ pc = "awaiting"
    /\ op \in {"create", "upsert", "update"}
    /\ outcome' = Thrown(RequestError)
    /\ pc' = "done"
    /\ UNCHANGED <<op, documents, options, optionsGiven, request, response>>
    /\ UNCHANGED poolVars

Next ==
    \/ Import
    \/ ImportResolved
    \/ ImportRejected
    \/ Create
    \/ Upsert
    \/ Update
    \/ WriteResolved
    \/ WriteRejected

Spec == Init /\ [][Next]_vars

-----------------------------------------------------------------------------
(* What the properties below say of a text, stated on its characters. *)

NewlinesBefore(t, p) == Cardinality({q \in 1..(p - 1) : t[q] = NL})

LineCount(t) == Cardinality({q \in 1..Len(t) : t[q] = NL}) + 1

\* The i-th line of t: what stands between its (i-1)-th and its i-th newline.
LineAt(t, i) ==
    LET ps == {p \in 1..Len(t) : t[p] # NL /\ NewlinesBefore(t, p) = i - 1}
    IN  IF ps = {} THEN << >>
        ELSE SubSeq(t, CHOOSE p \in ps : \A q \in ps : p <= q,
                       CHOOSE p \in ps : \A q \in ps : q <= p)

IsJsonText(line) == Len(line) = 1 /\ \E e \in JsonTable : e.text = line[1]

ValueOfLine(line) == (CHOOSE e \in JsonTable : e.text = line[1]).value

LinesAreJson(t) == \A i \in 1..LineCount(t) : IsJsonText(LineAt(t, i))

ValuesOfLines(t) == [i \in 1..LineCount(t) |-> ValueOfLine(LineAt(t, i))]

SuccessIsFalse(v) ==
    v.type = "object" /\ "success" \in DOMAIN v.props /\ v.props["success"] = "false"

ArrayImportAnswered ==
    pc = "done" /\ op = "import" /\ IsArray(documents) /\ response.kind = "text"

RaisedImportError == outcome.kind = "thrown" /\ outcome.error.name = "ImportError"

ReturnedArray == outcome.kind = "returned" /\ outcome.value.kind = "array"

\* An array import ended with a result sequence, returned or carried.
CarriesResults ==
    pc = "done" /\ op = "import" /\ IsArray(documents)
    /\ (RaisedImportError \/ ReturnedArray)

ResultsCarried ==
    IF RaisedImportError THEN outcome.error.importResults ELSE outcome.value.val

\* The outcome the partition rule gives for the decoded results rs.
PartitionedAs(rs) ==
    IF \E i \in 1..Len(rs) : SuccessIsFalse(rs[i])
    THEN RaisedImportError /\ outcome.error.importResults = rs
    ELSE ReturnedArray /\ outcome.value.val = rs

-----------------------------------------------------------------------------
(* Properties of Documents *)

\* C1 as stated: an array import whose request completed and whose response
\* lines all decode ends in exactly one of two ways: ImportError carrying all
\* the decoded results when one of them has success false, the decoded results
\* returned when none has.
C1_PartitionOfEveryDecodedResponse ==
    (ArrayImportAnswered /\ LinesAreJson(response.val))
        => PartitionedAs(ValuesOfLines(response.val))

\* C1 amended: the same for a response none of whose lines decodes to null.
C1_PartitionOfDecodedRecords ==
    (/\ ArrayImportAnswered
     /\ LinesAreJson(response.val)
     /\ \A i \in 1..LineCount(response.val) : ValuesOfLines(response.val)[i] # Null)
        => PartitionedAs(ValuesOfLines(response.val))

\* An ImportError whose results hold a success, a failure and a line that has
\* no success property (which does not count as a failure).
C1_Witness ==
    /\ ArrayImportAnswered
    /\ RaisedImportError
    /\ \E i, j \in 1..Len(outcome.error.importResults) :
        /\ outcome.error.importResults[i] = ResultNoSuccess
        /\ outcome.error.importResults[j] = ImportResponseSuccess
    /\ outcome.error.message.failed = 1

\* C2 as stated: the result sequence of an array import is as long as the
\* array of documents.
C2_LengthIsNumberOfDocuments ==
    CarriesResults => Len(ResultsCarried) = Len(documents.val)

\* C2 amended: the result sequence has one entry per line of the response
\* text, in the order of the lines: entry i is the value of line i.
C2_ResultsFollowResponseLines ==
    CarriesResults =>
        /\ Len(ResultsCarried) = LineCount(response.val)
        /\ \A i \in 1..Len(ResultsCarried) :
            ResultsCarried[i] = ValueOfLine(LineAt(response.val, i))

\* Three documents answered with three lines, the second a failure.
C2_Witness ==
    /\ CarriesResults
    /\ Len(documents.val) = 3
    /\ ResultsCarried = <<ImportResponseSuccess, ImportResponseFail, ImportResponseSuccess>>

\* C3: import of a text sends the text as the body and returns the response
\* text as it came, whatever it holds; no ImportError and no decode error.
C3_RawTextPassesThrough ==
    (op = "import" /\ ~IsArray(documents) /\ pc # "idle") =>
        /\ request.bodyParameters = documents.val
        /\ response.kind = "text" =>
            /\ outcome.kind = "returned"
            /\ outcome.value.kind = "string"
            /\ outcome.value.val = response.val

\* A text import answered with a failure line and a line that is no JSON.
C3_Witness ==
    /\ pc = "done" /\ op = "import" /\ ~IsArray(documents)
    /\ documents.val # << >>
    /\ response.kind = "text"
    /\ response.val = <<TextFail, NL, Garbage>>
    /\ outcome.kind = "returned"

\* C4: the message of an ImportError counts the results with success false as
\* failed and the others as succeeded, at least one failed, and the two add up
\* to the results carried; [A, B, C] with only B failing: 2 succeeded, 1 failed.
C4_SummaryCountsResults ==
    /\ (pc = "done" /\ op = "import" /\ RaisedImportError) =>
        LET rs == outcome.error.importResults
            m == Cardinality({i \in 1..Len(rs) : SuccessIsFalse(rs[i])})
        IN  /\ outcome.error.message.failed = m
            /\ outcome.error.message.succeeded = Len(rs) - m
            /\ m >= 1
            /\ outcome.error.message.succeeded + outcome.error.message.failed = Len(rs)
    /\ (/\ ArrayImportAnswered
        /\ documents.val = <<DocA, DocB, DocC>>
        /\ response.val = <<TextSuccess, NL, TextFail, NL, TextSuccess>>) =>
        /\ RaisedImportError
        /\ outcome.error.message = [succeeded |-> 2, failed |-> 1]
        /\ outcome.error.importResults =
               <<ImportResponseSuccess, ImportResponseFail, ImportResponseSuccess>>

\* [A, B, C] imported, B failed.
C4_Witness ==
    /\ ArrayImportAnswered
    /\ documents.val = <<DocA, DocB, DocC>>
    /\ response.val = <<TextSuccess, NL, TextFail, NL, TextSuccess>>
    /\ RaisedImportError

SomeLineMalformed(t) == \E i \in 1..LineCount(t) : ~IsJsonText(LineAt(t, i))

FirstMalformedLine(t) ==
    CHOOSE i \in 1..LineCount(t) :
        /\ ~IsJsonText(LineAt(t, i))
        /\ \A j \in 1..(i - 1) : IsJsonText(LineAt(t, j))

\* C5 as stated: a malformed response line fails an array import with an error
\* that names the index of the offending line, and nothing is returned.
C5_MalformedLineIsNamed ==
    (ArrayImportAnswered /\ SomeLineMalformed(response.val)) =>
        /\ outcome.kind = "thrown"
        /\ outcome.error.name # "ImportError"
        /\ "line" \in DOMAIN outcome.error
        /\ outcome.error.line = FirstMalformedLine(response.val)

\* C5 amended: a malformed response line fails an array import with the
\* SyntaxError of JSON.parse, which names no line; nothing is returned and no
\* ImportError is raised.
C5_MalformedLineFailsTheImport ==
    (ArrayImportAnswered /\ SomeLineMalformed(response.val)) =>
        /\ outcome.kind = "thrown"
        /\ outcome.error.name = "SyntaxError"
        /\ "line" \notin DOMAIN outcome.error

\* A failure and a success followed by a trailing newline: the empty last line.
C5_Witness ==
    /\ ArrayImportAnswered
    /\ response.val = <<TextFail, NL, TextSuccess, NL>>
    /\ outcome.kind = "thrown"

VerbOf(o) == IF o = "upsert" THEN "\"upsert\"" ELSE "\"update\""

\* C10: upsert and update send their own action whatever the options say, pass
\* every other option through, and leave the caller's options as they were;
\* create, upsert and update given no document throw 'No document provided'
\* and make no request.
C10_WriteActionAndOptions ==
    /\ (op \in {"upsert", "update"} /\ request # NoRequest) =>
        LET given == IF optionsGiven = Undefined THEN << >> ELSE optionsGiven
        IN  /\ DOMAIN request.queryParameters = DOMAIN given \cup {"action"}
            /\ request.queryParameters["action"] = VerbOf(op)
            /\ \A k \in DOMAIN given \ {"action"} :
                request.queryParameters[k] = given[k]
            /\ options = optionsGiven
            /\ request.bodyParameters = documents
    /\ (op \in {"create", "upsert", "update"} /\ Falsy(documents)) =>
        /\ pc = "done"
        /\ outcome.kind = "thrown"
        /\ outcome.error = NoDocumentError
        /\ request = NoRequest

\* upsert called with options that ask for action create.
C10_Witness ==
    /\ op = "upsert"
    /\ pc = "awaiting"
    /\ optionsGiven = [action |-> "\"create\"", dirty_values |-> "\"drop\""]
    /\ request.queryParameters = [action |-> "\"upsert\"", dirty_values |-> "\"drop\""]

-----------------------------------------------------------------------------
(* The codec of import on its own: encode is line 192, decode line 204. *)

CodecRecords == {DocA, DocB, DocNaN}

CodecLines == { << >>, <<TextSuccess>>, <<TextSuccessSpaced>>, <<"{\"id\":\"A\"}">>, <<Garbage>> }

CodecTexts == { TextOfLines(ls) : ls \in SeqsUpTo(CodecLines, MaxLines) \ {<< >>} }

\* Records are encoded to a text.
EncodeRecords ==
    /\ pc = "idle"
    /\ \E records \in SeqsUpTo(CodecRecords, MaxDocs) :
        /\ documents' = ArrayOf(records)
        /\ response' = [kind |-> "text", val |-> Encode(records)]
    /\ op' = "encode"
    /\ pc' = "encoded"
    /\ UNCHANGED <<options, optionsGiven, request, outcome>>
    /\ UNCHANGED poolVars

\* The text encoded is decoded again.
DecodeEncoded ==
    /\ pc = "encoded"
    /\ outcome' = Decode(response.val)
    /\ pc' = "done"
    /\ UNCHANGED <<op, documents, options, optionsGiven, request, response>>
    /\ UNCHANGED poolVars

\* A text is decoded to records.
DecodeText ==
    /\ pc = "idle"
    /\ \E text \in CodecTexts :
        /\ documents' = StringOf(text)
        /\ outcome' = Decode(text)
    /\ op' = "decode"
    /\ pc' = "decoded"
    /\ UNCHANGED <<options, optionsGiven, request, response>>
    /\ UNCHANGED poolVars

\* The records decoded are encoded again.
EncodeDecoded ==
    /\ pc = "decoded"
    /\ outcome.kind = "returned"
    /\ response' = [kind |-> "text", val |-> Encode(outcome.value.val)]
    /\ pc' = "done"
    /\ UNCHANGED <<op, documents, options, optionsGiven, request, outcome>>
    /\ UNCHANGED poolVars

NextCodec == EncodeRecords \/ DecodeEncoded \/ DecodeText \/ EncodeDecoded

SpecCodec == Init /\ [][NextCodec]_vars

SpecPool == InitTransport /\ [][NextPool]_vars

SpecRetry == InitTransport /\ [][NextRetry]_vars

\* The line is what JSON.stringify writes for the value it stands for.
IsCanonicalJsonText(line) ==
    Len(line) = 1 /\ \E e \in JsonTable : e.text = line[1] /\ e.canonical

\* The value is one JSON.parse can give.
IsJsonValue(v) == \E e \in JsonTable : e.value = v

\* encode writes one line per record, in order, a newline between two lines
\* and none after the last.
EncodeJoinsLines ==
    (op = "encode" /\ pc # "idle") =>
        LET records == documents.val
            text == response.val
        IN  IF records = << >> THEN text = << >>
            ELSE /\ LineCount(text) = Len(records)
                 /\ \A i \in 1..Len(records) : LineAt(text, i) = JSONstringify(records[i])
                 /\ text[Len(text)] # NL

\* C6 as stated: encode joins the records' lines with newlines;
\* decode(encode(records)) is records for every sequence of one record or
\* more; encode(decode(text)) is text for every text whose lines are all JSON.
C6_RoundTripsOfEveryInput ==
    /\ EncodeJoinsLines
    /\ (op = "encode" /\ pc = "done" /\ Len(documents.val) >= 1) =>
        /\ outcome.kind = "returned"
        /\ outcome.value.val = documents.val
    /\ (op = "decode" /\ pc = "done" /\ LinesAreJson(documents.val)) =>
        response.val = documents.val

\* C6 amended: decode(encode(records)) is records for one or more records that
\* are JSON values; encode(decode(text)) is text for a text whose lines are
\* all written the way JSON.stringify writes them.
C6_RoundTripsOfCanonicalInput ==
    /\ EncodeJoinsLines
    /\ (/\ op = "encode" /\ pc = "done" /\ Len(documents.val) >= 1
        /\ \A i \in 1..Len(documents.val) : IsJsonValue(documents.val[i])) =>
        /\ outcome.kind = "returned"
        /\ outcome.value.val = documents.val
    /\ (/\ op = "decode" /\ pc \in {"decoded", "done"}
        /\ \A i \in 1..LineCount(documents.val) :
              IsCanonicalJsonText(LineAt(documents.val, i))) =>
        /\ outcome.kind = "returned"
        /\ pc = "done" => response.val = documents.val

\* Three records encoded and decoded back.
C6_Witness ==
    /\ op = "encode" /\ pc = "done"
    /\ documents.val = <<DocA, DocB, DocA>>
    /\ response.val = <<"{\"id\":\"A\"}", NL, "{\"id\":\"B\"}", NL, "{\"id\":\"A\"}">>
    /\ outcome = Returned(ArrayOf(documents.val))

-----------------------------------------------------------------------------
(* Properties of the transport *)

AllNetworkErrors(history) ==
    \A i \in 1..Len(history) : history[i].outcome = "NetworkError"

\* C7: a further attempt is made only after a NetworkError; a response with
\* a status outside 2xx ends the request at that attempt with the application
\* error; attempts that all end in NetworkError end the request with
\* ServiceUnavailableError once the budget of N attempts is used.
C7_RetryOnlyOnNetworkError ==
    /\ Len(tried) <= poolSize
    /\ \A i \in 1..(Len(tried) - 1) : tried[i].outcome = "NetworkError"
    /\ opc[Request] \in {"selecting", "sending"} => AllNetworkErrors(tried)
    /\ (/\ tried # << >>
        /\ tried[Len(tried)].outcome = "response"
        /\ ~(tried[Len(tried)].status \in 200..299)) =>
            /\ opc[Request] = "done"
            /\ result = "ApplicationError"
    /\ (Len(tried) = poolSize /\ AllNetworkErrors(tried)) =>
            /\ opc[Request] = "done"
            /\ result = "ServiceUnavailableError"
    /\ result = "ServiceUnavailableError" =>
            /\ Len(tried) = poolSize
            /\ AllNetworkErrors(tried)

\* A NetworkError, a retry, and a server fault that ends the request.
C7_Witness ==
    /\ tried = << [outcome |-> "NetworkError", status |-> 0],
                  [outcome |-> "response", status |-> 503] >>
    /\ opc[Request] = "done"
    /\ result = "ApplicationError"
    /\ poolSize = 3

InCooldown(n) == ~health[n].healthy /\ now < health[n].since + Cooldown

CooledDown(n) == ~health[n].healthy /\ now >= health[n].since + Cooldown

====
